---- MODULE Spec2Model ----
(***************************************************************************)
(* Model of cargo's unit-graph serialization                               *)
(* (src/cargo/core/compiler/unit_graph.rs):                                *)
(*   - load_serialized_unit_graph and SerializedUnitGraph::validate        *)
(*     (reachability closure + compaction of a serialized document),       *)
(*   - emit_serialized_unit_graph (canonical, index-based document).       *)
(* Vectors are sequences (1-based), while the indices stored in the        *)
(* document are the 0-based positions the Rust code uses.                  *)
(***************************************************************************)
EXTENDS Integers, Sequences, FiniteSets, TLC

VARIABLES
    data,          \* contents of the file read by load_serialized_unit_graph
    self,          \* the SerializedUnitGraph being validated
    used_units,    \* validate: HashSet of visited indices
    to_visit,      \* validate: work-list (Vec used as a stack)
    index_map,     \* validate: old index -> new index
    units,         \* validate: the local Vec swapped out of self.units
    index,         \* validate: position of the enumerate() loop
    warnings,      \* what gctx.shell().warn has printed so far
    result,        \* outcome of the current call
    phase,         \* position of the control flow
    orig,          \* history: document and warning count at the start of the call
    pushed,        \* history: how often each index had its dependencies pushed
    again,         \* history: validate has been run a second time
    unit_graph,    \* emit: the in-memory UnitGraph (HashMap<Unit, Vec<UnitDep>>)
    root_units,    \* emit: the root units
    nightly_features_allowed, \* emit: bcx.gctx.nightly_features_allowed
    iter_sorted,   \* history: unit_graph.iter() last enumerated the map in Unit order
    stdout         \* emit: documents written to the standard output

validateVars == <<data, self, used_units, to_visit, index_map, units, index,
                  warnings, result, phase, orig, pushed, again>>
emitVars == <<unit_graph, root_units, nightly_features_allowed, iter_sorted, stdout>>
vars == <<validateVars, emitVars>>

(***************************************************************************)
(* Bounds of the model.                                                    *)
(***************************************************************************)
MaxUnits == 3          \* units of a document
MaxEntries == 3        \* roots plus dependency entries of a document
NumUnitValues == 3     \* distinct Units the planner can put in a graph
MaxGraphEntries == 2   \* root units plus edges of a graph
MaxEmits == 2          \* runs of emit_serialized_unit_graph

(***************************************************************************)
(* Program constants.                                                      *)
(***************************************************************************)
VERSION == 1
\* The version numbers a file may carry: the current one and a later one.
Versions == {VERSION, VERSION + 1}

\* Results of a call: not returned yet, Ok(()), or an error.
NoResult == [kind |-> "none", index |-> 0, count |-> 0]
Ok == [kind |-> "Ok", index |-> 0, count |-> 0]

\* Result of HashMap's Index on a missing key (a panic).
Panic == -1

(***************************************************************************)
(* Sequence helpers (Vec operations).                                      *)
(***************************************************************************)
Last(s) == s[Len(s)]
Front(s) == SubSeq(s, 1, Len(s) - 1)

\* Sequences over S of length at most n.
SeqUpTo(S, n) == UNION {[1..k -> S] : k \in 0..n}

(***************************************************************************)
(* Documents.  A SerializedUnit keeps pkg_id as the stand-in of all the    *)
(* attributes validate never touches; a SerializedUnitDep keeps            *)
(* extern_crate_name as the stand-in of its non-index fields.              *)
(***************************************************************************)
PkgIdOf(pos) == 100 + pos
CrateNameOf(pos, j) == 10 * pos + j

\* A document is drawn as a list of entries <<owner, index>>, grouped by
\* owner: owner RootOwner is the roots vector, owner pos the dependencies of
\* the unit at pos.  Indices range over 0..n, n being one past the end.
RootOwner == -1

RECURSIVE DepsOf(_, _, _)
DepsOf(entries, pos, j) ==
    IF entries = <<>> THEN <<>>
    ELSE IF entries[1][1] = pos
         THEN <<[index |-> entries[1][2], extern_crate_name |-> CrateNameOf(pos, j)]>>
              \o DepsOf(Tail(entries), pos, j + 1)
         ELSE DepsOf(Tail(entries), pos, j)

RECURSIVE RootsOf(_)
RootsOf(entries) ==
    IF entries = <<>> THEN <<>>
    ELSE IF entries[1][1] = RootOwner
         THEN <<entries[1][2]>> \o RootsOf(Tail(entries))
         ELSE RootsOf(Tail(entries))

MakeUnits(n, entries) ==
    [p \in 1..n |-> [pkg_id |-> PkgIdOf(p - 1),
                     dependencies |-> DepsOf(entries, p - 1, 0)]]

EntryLists(n) ==
    {e \in SeqUpTo((RootOwner..(n - 1)) \X (0..n), MaxEntries) :
        \A k \in 1..(Len(e) - 1) : e[k][1] <= e[k + 1][1]}

Document(v, n, entries) ==
    [version |-> v, units |-> MakeUnits(n, entries), roots |-> RootsOf(entries)]

NoDoc == [version |-> 0, units |-> <<>>, roots |-> <<>>]

(***************************************************************************)
(* SerializedUnitGraph::validate, pure parts.                              *)
(***************************************************************************)
\* Variant: the dependencies of a visited unit are not followed.
DepIndicesNone(unit) == <<>>

\* self.units[index].dependencies.iter().map(|dep| dep.index)
DepIndices(unit) ==
    [k \in DOMAIN unit.dependencies |-> unit.dependencies[k].index]

\* Variant: every popped index is treated as new.
InsertAlways(set, i) == TRUE

\* used_units.insert(index): TRUE iff the index was not yet in the set.
Insert(set, i) == i \notin set

\* The error built by anyhow::bail!.
DanglingError(i, used) ==
    [kind |-> "dangling", index |-> i, count |-> Cardinality(used)]

\* used_units in ascending order (sort_unstable).
RECURSIVE SortedSeq(_)
SortedSeq(S) ==
    IF S = {} THEN <<>>
    ELSE LET m == CHOOSE x \in S : \A y \in S : x <= y
         IN <<m>> \o SortedSeq(S \ {m})

\* Variant: the used indices are enumerated without sort_unstable, here in
\* descending order.
IndexMapUnsorted(used) ==
    [old \in used |-> Cardinality({j \in used : j > old})]

\* index_map: enumerate the sorted used indices, map old -> new.
IndexMap(used) ==
    LET sorted == SortedSeq(used)
    IN [old \in used |-> (CHOOSE new \in DOMAIN sorted : sorted[new] = old) - 1]

\* index_map[&key]
Lookup(map, key) == IF key \in DOMAIN map THEN map[key] ELSE Panic

\* Variant: a kept unit is pushed without rewriting its dependencies.
RewriteUnitKeep(unit, map) == unit

\* for dep in &mut unit.dependencies { dep.index = index_map[&dep.index]; }
RewriteUnit(unit, map) ==
    [unit EXCEPT !.dependencies =
        [k \in DOMAIN unit.dependencies |->
            [unit.dependencies[k] EXCEPT !.index = Lookup(map, @)]]]

\* for root in &mut self.roots { *root = index_map[root]; }
RewriteRoots(roots, map) == [k \in DOMAIN roots |-> Lookup(map, roots[k])]

\* Variant: the warning counts units from 1.
WarnMsgOneBased(i, unit) == [index |-> i + 1, pkg_id |-> unit.pkg_id]

\* The warning text: the unit's index in the original vector and its pkg_id.
WarnMsg(i, unit) == [index |-> i, pkg_id |-> unit.pkg_id]

Bump(n) == IF n >= 2 THEN 2 ELSE n + 1

(***************************************************************************)
(* Initial states.                                                         *)
(***************************************************************************)
EmitIdle ==
    /\ unit_graph = <<>>
    /\ root_units = <<>>
    /\ nightly_features_allowed = FALSE
    /\ iter_sorted = TRUE
    /\ stdout = <<>>

ValidateIdle ==
    /\ data = NoDoc
    /\ self = NoDoc
    /\ used_units = {}
    /\ to_visit = <<>>
    /\ index_map = <<>>
    /\ units = <<>>
    /\ index = 0
    /\ warnings = <<>>
    /\ result = NoResult
    /\ phase = "start"
    /\ orig = [doc |-> NoDoc, warned |-> 0]
    /\ pushed = <<>>
    /\ again = FALSE

Init == ValidateIdle /\ EmitIdle

(***************************************************************************)
(* load_serialized_unit_graph: read and parse the file, then start         *)
(* validate on the parsed document.  The version field is parsed and       *)
(* never looked at.                                                        *)
(***************************************************************************)
BeginValidate(doc) ==
    /\ used_units' = {}
    /\ to_visit' = doc.roots
    /\ orig' = [doc |-> doc, warned |-> Len(warnings)]
    /\ pushed' = [i \in 0..(Len(doc.units) - 1) |-> 0]
    /\ index_map' = <<>>
    /\ units' = <<>>
    /\ index' = 0
    /\ result' = NoResult
    /\ phase' = "traverse"

load_serialized_unit_graph ==
    /\ phase = "start"
    /\ \E v \in Versions, n \in 0..MaxUnits :
         \E e \in EntryLists(n) :
            LET doc == Document(v, n, e)
            IN /\ data' = doc
               /\ self' = doc
               /\ BeginValidate(doc)
    /\ UNCHANGED <<warnings, again, emitVars>>

\* paths::read or serde_json::from_str fails: `?` returns the error and no
\* document exists.
load_fails ==
    /\ phase = "start"
    /\ \E kind \in {"io", "parse"} : result' = [kind |-> kind, index |-> 0, count |-> 0]
    /\ phase' = "failed"
    /\ UNCHANGED <<data, self, used_units, to_visit, index_map, units, index,
                   warnings, orig, pushed, again, emitVars>>

\* One iteration of `while let Some(index) = to_visit.pop()`.
WhileLoop ==
    /\ phase = "traverse"
    /\ to_visit # <<>>
    /\ LET i == Last(to_visit)
           rest == Front(to_visit)
       IN IF i >= Len(self.units)
          THEN /\ result' = DanglingError(i, used_units)
               /\ phase' = "done"
               /\ to_visit' = rest
               /\ UNCHANGED <<used_units, pushed>>
          ELSE IF Insert(used_units, i)
               THEN /\ used_units' = used_units \cup {i}
                    /\ to_visit' = rest \o DepIndices(self.units[i + 1])
                    /\ pushed' = [pushed EXCEPT ![i] = Bump(@)]
                    /\ UNCHANGED <<result, phase>>
               ELSE /\ to_visit' = rest
                    /\ UNCHANGED <<used_units, pushed, result, phase>>
    /\ UNCHANGED <<data, self, index_map, units, index, warnings, orig, again, emitVars>>

\* `if used_units.len() != self.units.len()`: either return Ok(()) at once,
\* or build index_map and swap the units out of self.
ReportAndRemove ==
    /\ phase = "traverse"
    /\ to_visit = <<>>
    /\ IF Cardinality(used_units) # Len(self.units)
       THEN /\ index_map' = IndexMap(used_units)
            /\ units' = self.units
            /\ self' = [self EXCEPT !.units = <<>>]
            /\ index' = 0
            /\ phase' = "compact"
            /\ UNCHANGED result
       ELSE /\ result' = Ok
            /\ phase' = "done"
            /\ UNCHANGED <<self, index_map, units, index>>
    /\ UNCHANGED <<data, used_units, to_visit, warnings, orig, pushed, again, emitVars>>

\* One iteration of `for (index, mut unit) in units.into_iter().enumerate()`
\* for a unit that is kept.
KeepUnit ==
    /\ phase = "compact"
    /\ index < Len(units)
    /\ index \in DOMAIN index_map
    /\ self' = [self EXCEPT !.units = Append(@, RewriteUnit(units[index + 1], index_map))]
    /\ index' = index + 1
    /\ UNCHANGED <<data, used_units, to_visit, index_map, units, warnings, result,
                   phase, orig, pushed, again, emitVars>>

\* The same iteration for a unit that is dropped: shell().warn(..)? succeeds.
WarnUnit ==
    /\ phase = "compact"
    /\ index < Len(units)
    /\ index \notin DOMAIN index_map
    /\ warnings' = Append(warnings, WarnMsg(index, units[index + 1]))
    /\ index' = index + 1
    /\ UNCHANGED <<data, self, used_units, to_visit, index_map, units, result,
                   phase, orig, pushed, again, emitVars>>

\* The same iteration when shell().warn(..) fails: `?` returns the error.
WarnFails ==
    /\ phase = "compact"
    /\ index < Len(units)
    /\ index \notin DOMAIN index_map
    /\ result' = [kind |-> "shell", index |-> index, count |-> 0]
    /\ phase' = "done"
    /\ UNCHANGED <<data, self, used_units, to_visit, index_map, units, index,
                   warnings, orig, pushed, again, emitVars>>

\* `for root in &mut self.roots`, then Ok(()).
ForRoots ==
    /\ phase = "compact"
    /\ index = Len(units)
    /\ self' = [self EXCEPT !.roots = RewriteRoots(@, index_map)]
    /\ result' = Ok
    /\ phase' = "done"
    /\ UNCHANGED <<data, used_units, to_visit, index_map, units, index, warnings,
                   orig, pushed, again, emitVars>>

\* validate called once more on the document a successful validate left.
ValidateAgain ==
    /\ phase = "done"
    /\ result = Ok
    /\ ~again
    /\ again' = TRUE
    /\ BeginValidate(self)
    /\ UNCHANGED <<data, self, warnings, emitVars>>

Next ==
    \/ load_serialized_unit_graph
    \/ load_fails
    \/ WhileLoop
    \/ ReportAndRemove
    \/ KeepUnit
    \/ WarnUnit
    \/ WarnFails
    \/ ForRoots
    \/ ValidateAgain

Spec == Init /\ [][Next]_vars

\* validate is synchronous: once called, its loops keep running.
FairSpec ==
    /\ Spec
    /\ WF_vars(WhileLoop)
    /\ WF_vars(ReportAndRemove)

(***************************************************************************)
(* In-memory graph.  A Unit is identified by its attributes, of which pkg  *)
(* and mode are kept; Units are totally ordered attribute by attribute.    *)
(***************************************************************************)
\* The Units of the model: packages 1, 1, 2, 2, ... in modes 1, 0, 1, 0, ...,
\* so that the order of the Units is not the order of their numbers.
UnitValue(i) == [pkg |-> (i + 1) \div 2, mode |-> i % 2]
Unit == {UnitValue(i) : i \in 1..NumUnitValues}

UnitLess(a, b) == a.pkg < b.pkg \/ (a.pkg = b.pkg /\ a.mode < b.mode)

\* UnitDep; the fields besides unit are fixed by the position in the list.
UnitDep(target, j) ==
    [unit |-> target, extern_crate_name |-> 20 + j, public |-> (j % 2 = 0),
     noprelude |-> (j % 2 = 1)]

\* A graph is drawn as a list of entries <<owner, target>>, grouped by owner:
\* owner NoUnit is root_units, owner u the edge list of key u.
NoUnit == [pkg |-> 0, mode |-> 0]

RECURSIVE UnitDepsOf(_, _, _)
UnitDepsOf(entries, u, j) ==
    IF entries = <<>> THEN <<>>
    ELSE IF entries[1][1] = u
         THEN <<UnitDep(entries[1][2], j)>> \o UnitDepsOf(Tail(entries), u, j + 1)
         ELSE UnitDepsOf(Tail(entries), u, j)

RECURSIVE RootUnitsOf(_)
RootUnitsOf(entries) ==
    IF entries = <<>> THEN <<>>
    ELSE IF entries[1][1] = NoUnit
         THEN <<entries[1][2]>> \o RootUnitsOf(Tail(entries))
         ELSE RootUnitsOf(Tail(entries))

GraphEntryLists(keys) ==
    {e \in SeqUpTo((keys \cup {NoUnit}) \X keys, MaxGraphEntries) :
        \A k \in 1..(Len(e) - 1) : e[k][1] = e[k + 1][1] \/ UnitLess(e[k][1], e[k + 1][1])}

\* The orders in which a HashMap with these keys can be iterated.
IterOrders(keys) ==
    {s \in [1..Cardinality(keys) -> keys] : \A i, j \in DOMAIN s : s[i] = s[j] => i = j}

\* The planner hands over a graph whose roots and edge targets are keys.
EmitInit ==
    /\ ValidateIdle
    /\ \E keys \in SUBSET Unit :
         \E e \in GraphEntryLists(keys) :
            /\ unit_graph = [u \in keys |-> UnitDepsOf(e, u, 0)]
            /\ root_units = RootUnitsOf(e)
    /\ nightly_features_allowed \in BOOLEAN
    /\ iter_sorted = TRUE
    /\ stdout = <<>>

(***************************************************************************)
(* emit_serialized_unit_graph, pure parts.                                 *)
(***************************************************************************)
\* unit_graph.iter().collect(): the (unit, edges) pairs in iteration order.
Collect(graph, order) == [k \in DOMAIN order |-> <<order[k], graph[order[k]]>>]

\* Ord of (&Unit, &Vec<UnitDep>); the keys of a map are distinct, so the
\* first component decides.
PairLess(a, b) == UnitLess(a[1], b[1])

RECURSIVE InsertPair(_, _)
InsertPair(sorted, x) ==
    IF sorted = <<>> THEN <<x>>
    ELSE IF PairLess(x, sorted[1]) THEN <<x>> \o sorted
    ELSE <<sorted[1]>> \o InsertPair(Tail(sorted), x)

\* Variant: the collected pairs are used as enumerated.
SortSkipped(s) == s

\* units.sort_unstable()
RECURSIVE SortUnstable(_)
SortUnstable(s) ==
    IF s = <<>> THEN <<>>
    ELSE InsertPair(SortUnstable(Front(s)), Last(s))

\* Variant: positions are counted from 1.
IndicesOneBased(sorted) ==
    [u \in {sorted[k][1] : k \in DOMAIN sorted} |->
        CHOOSE k \in DOMAIN sorted : sorted[k][1] = u]

\* indices: unit -> position in the sorted vector.
Indices(sorted) ==
    [u \in {sorted[k][1] : k \in DOMAIN sorted} |->
        (CHOOSE k \in DOMAIN sorted : sorted[k][1] = u) - 1]

None == [some |-> FALSE, value |-> FALSE]
Some(v) == [some |-> TRUE, value |-> v]

SerializeDep(unit_dep, indices, nightly) ==
    [index |-> Lookup(indices, unit_dep.unit),
     extern_crate_name |-> unit_dep.extern_crate_name,
     public |-> IF nightly THEN Some(unit_dep.public) ELSE None,
     noprelude |-> IF nightly THEN Some(unit_dep.noprelude) ELSE None]

SerializeUnit(pair, indices, nightly) ==
    [pkg_id |-> pair[1].pkg,
     mode |-> pair[1].mode,
     dependencies |-> [k \in DOMAIN pair[2] |-> SerializeDep(pair[2][k], indices, nightly)]]

Serialize(graph, roots, nightly, order) ==
    LET sorted == SortUnstable(Collect(graph, order))
        indices == Indices(sorted)
    IN [version |-> VERSION,
        units |-> [k \in DOMAIN sorted |-> SerializeUnit(sorted[k], indices, nightly)],
        roots |-> [k \in DOMAIN roots |-> Lookup(indices, roots[k])]]

\* The enumeration happens to be in Unit order already.
Ascending(order) ==
    \A i, j \in DOMAIN order : i < j => UnitLess(order[i], order[j])

\* One run: the map is enumerated in some order and the document is written
\* to the standard output.
emit_serialized_unit_graph ==
    /\ Len(stdout) < MaxEmits
    /\ \E order \in IterOrders(DOMAIN unit_graph) :
        /\ iter_sorted' = Ascending(order)
        /\ stdout' = Append(stdout,
                Serialize(unit_graph, root_units, nightly_features_allowed, order))
    /\ UNCHANGED <<validateVars, unit_graph, root_units, nightly_features_allowed>>

\* One run in which serde_json::to_writer fails: `?` returns the error.
emit_write_fails ==
    /\ Len(stdout) < MaxEmits
    /\ result' = [kind |-> "io", index |-> 0, count |-> 0]
    /\ UNCHANGED <<data, self, used_units, to_visit, index_map, units, index,
                   warnings, phase, orig, pushed, again, emitVars>>

EmitNext ==
    \/ emit_serialized_unit_graph
    \/ emit_write_fails

EmitSpec == EmitInit /\ [][EmitNext]_vars

(***************************************************************************)
(* Reference notions the properties are stated with.  They are defined     *)
(* on documents directly and use none of the operators above.              *)
(***************************************************************************)
NumUnits(doc) == Len(doc.units)

\* Indices a set of indices refers to through dependencies[].index.
Targets(doc, S) ==
    UNION {{doc.units[i + 1].dependencies[k].index :
                k \in DOMAIN doc.units[i + 1].dependencies} :
           i \in {j \in S : j < NumUnits(doc)}}

RECURSIVE Closure(_, _)
Closure(doc, S) ==
    LET T == S \cup Targets(doc, S)
    IN IF T = S THEN S ELSE Closure(doc, T)

\* All indices reachable from roots, out-of-range ones included.
Reachable(doc) == Closure(doc, {doc.roots[k] : k \in DOMAIN doc.roots})

\* Some root or some dependency of some unit is out of range.
HasDangling(doc) ==
    \/ \E k \in DOMAIN doc.roots : doc.roots[k] >= NumUnits(doc)
    \/ \E p \in DOMAIN doc.units : \E k \in DOMAIN doc.units[p].dependencies :
          doc.units[p].dependencies[k].index >= NumUnits(doc)

FullyReachable(doc) == Reachable(doc) = 0..(NumUnits(doc) - 1)

\* Position of old index i among the reachable indices.
NewPos(doc, i) == Cardinality({j \in Reachable(doc) : j < i})

InValidate == phase \in {"traverse", "compact", "done"}
Returned == phase = "done"
Succeeded == phase = "done" /\ result = Ok

\* Warnings printed by the current call.
NewWarnings == SubSeq(warnings, orig.warned + 1, Len(warnings))

\* The unit at old index i is what new position NewPos holds, renumbered.
SameUnitRenumbered(new, old, doc) ==
    /\ new.pkg_id = old.pkg_id
    /\ Len(new.dependencies) = Len(old.dependencies)
    /\ \A k \in DOMAIN old.dependencies :
          /\ new.dependencies[k].extern_crate_name = old.dependencies[k].extern_crate_name
          /\ new.dependencies[k].index = NewPos(doc, old.dependencies[k].index)

(***************************************************************************)
(* C1: a successful validate leaves exactly the units reachable from the   *)
(* roots, in their original relative order, renumbered 0..k-1; every       *)
(* dependency index and root is the new position of the unit it pointed    *)
(* to, hence in range; the other fields, the order and number of           *)
(* dependency entries and of roots are unchanged.                          *)
(***************************************************************************)
C1_Compaction ==
    Succeeded =>
        LET doc == orig.doc
            R == Reachable(doc)
        IN /\ \A i \in R : i < NumUnits(doc)
           /\ Len(self.units) = Cardinality(R)
           /\ \A i \in R :
                 SameUnitRenumbered(self.units[NewPos(doc, i) + 1], doc.units[i + 1], doc)
           /\ \A p \in DOMAIN self.units : \A k \in DOMAIN self.units[p].dependencies :
                 self.units[p].dependencies[k].index \in 0..(Len(self.units) - 1)
           /\ Len(self.roots) = Len(doc.roots)
           /\ \A k \in DOMAIN doc.roots :
                 /\ self.roots[k] = NewPos(doc, doc.roots[k])
                 /\ self.roots[k] \in 0..(Len(self.units) - 1)
           /\ self.version = doc.version

\* A unit was pruned in front of a kept one, so a root and a dependency moved.
C1_Witness ==
    /\ Succeeded
    /\ Len(self.units) >= 2
    /\ self.roots # orig.doc.roots
    /\ \E p \in DOMAIN self.units : \E k \in DOMAIN self.units[p].dependencies :
          self.units[p].dependencies[k].index = 1

(***************************************************************************)
(* C2: a document with a dangling index (a root or any unit's dependency   *)
(* index >= units.len(), the unit holding it reachable or not) never       *)
(* validates successfully.                                                 *)
(***************************************************************************)
C2_DanglingAlwaysFatal ==
    (Returned /\ HasDangling(orig.doc)) => result # Ok

(***************************************************************************)
(* C3: the out-of-range error names the offending index and the total      *)
(* number of units of the document.                                        *)
(***************************************************************************)
C3_ErrorNamesTotal ==
    (Returned /\ result.kind = "dangling") =>
        /\ result.index >= NumUnits(orig.doc)
        /\ result.count = NumUnits(orig.doc)

(***************************************************************************)
(* C4: load_serialized_unit_graph never returns a validated document whose *)
(* version is not VERSION.                                                 *)
(***************************************************************************)
C4_VersionRejected ==
    Succeeded => data.version = VERSION

(***************************************************************************)
(* C5: on a document whose every index is reachable from the roots         *)
(* validate succeeds, changes nothing and warns about nothing (cycles,     *)
(* self-loops and duplicates included); a second validate on the result    *)
(* of a successful one changes nothing and warns about nothing.            *)
(***************************************************************************)
C5_DenseUnchanged ==
    /\ (InValidate /\ FullyReachable(orig.doc)) =>
          /\ self = orig.doc
          /\ NewWarnings = <<>>
          /\ result \in {NoResult, Ok}
    /\ (again /\ Returned) =>
          /\ result = Ok
          /\ self = orig.doc
          /\ NewWarnings = <<>>

\* The second validate has returned on a pruned document with a self-loop
\* and a duplicated root.
C5_Witness ==
    /\ again
    /\ Succeeded
    /\ warnings # <<>>
    /\ Len(self.roots) = 2 /\ self.roots[1] = self.roots[2]
    /\ \E p \in DOMAIN self.units : \E k \in DOMAIN self.units[p].dependencies :
          self.units[p].dependencies[k].index = p - 1

(***************************************************************************)
(* C6: a successful validate warns exactly once per unreachable index,     *)
(* naming the original index and the pkg_id of that unit, and never about  *)
(* a reachable one; with empty roots all n units are warned about and      *)
(* units and roots end empty.                                              *)
(***************************************************************************)
C6_OneWarningPerUnreachable ==
    Succeeded =>
        LET doc == orig.doc
            W == NewWarnings
        IN /\ \A i \in 0..(NumUnits(doc) - 1) :
                 Cardinality({k \in DOMAIN W : W[k].index = i})
                    = IF i \in Reachable(doc) THEN 0 ELSE 1
           /\ \A k \in DOMAIN W :
                 /\ W[k].index \in 0..(NumUnits(doc) - 1)
                 /\ W[k].pkg_id = doc.units[W[k].index + 1].pkg_id
           /\ doc.roots = <<>> =>
                 /\ Len(W) = NumUnits(doc)
                 /\ self.units = <<>>
                 /\ self.roots = <<>>

\* Unit #0 was pruned and a later unit kept.
C6_Witness ==
    /\ Succeeded
    /\ ~again
    /\ Len(warnings) >= 1
    /\ warnings[1].index = 0
    /\ self.units # <<>>

(***************************************************************************)
(* C9: the work-list loop terminates; each index has its dependencies      *)
(* pushed at most once; when the loop has ended without error the visited  *)
(* set is the set of indices reachable from the roots.                     *)
(***************************************************************************)
LoopEndedWithoutError ==
    \/ phase = "compact"
    \/ phase = "done" /\ result.kind # "dangling"

C9_LoopTerminates ==
    /\ [](\A i \in DOMAIN pushed : pushed[i] <= 1)
    /\ [](LoopEndedWithoutError => used_units = Reachable(orig.doc))
    /\ (phase = "traverse") ~> (phase # "traverse")

\* The loop has ended on a document with a two-unit cycle.
C9_Witness ==
    /\ LoopEndedWithoutError
    /\ NumUnits(orig.doc) >= 2
    /\ 1 \in Targets(orig.doc, {0})
    /\ 0 \in Targets(orig.doc, {1})
    /\ used_units = {0, 1}

(***************************************************************************)
(* C10 as stated: whenever validate returns an error, units and roots are  *)
(* what they were before the call.                                         *)
(***************************************************************************)
C10_ErrorLeavesDocument ==
    (Returned /\ result.kind \in {"dangling", "shell"}) =>
        /\ self.units = orig.doc.units
        /\ self.roots = orig.doc.roots

(***************************************************************************)
(* C10 amended: an out-of-range error leaves the document as it was; a     *)
(* failed warning leaves roots as they were and units holding the          *)
(* reachable units in front of the unit warned about, renumbered.          *)
(***************************************************************************)
C10_ErrorStates ==
    /\ (Returned /\ result.kind = "dangling") => self = orig.doc
    /\ (Returned /\ result.kind = "shell") =>
          LET doc == orig.doc
              kept == {j \in Reachable(doc) : j < result.index}
          IN /\ self.roots = doc.roots
             /\ self.version = doc.version
             /\ Len(self.units) = Cardinality(kept)
             /\ \A j \in kept :
                   SameUnitRenumbered(self.units[NewPos(doc, j) + 1], doc.units[j + 1], doc)

\* A warning failed after a unit with a renumbered dependency had been kept.
C10_Witness ==
    /\ Returned
    /\ result.kind = "shell"
    /\ self.units # <<>>
    /\ self.units # SubSeq(orig.doc.units, 1, Len(self.units))
(***************************************************************************)
(* C7: the emitted document has one unit per graph key, in ascending Unit  *)
(* order; every dependency index and root is in range and is the position  *)
(* of the unit the edge or root designates; dependency entries keep the    *)
(* order of the edge list and roots the order of root_units.               *)
(***************************************************************************)
UnitOf(su) == [pkg |-> su.pkg_id, mode |-> su.mode]

C7_EmittedIndices ==
    \A d \in DOMAIN stdout :
        LET doc == stdout[d]
            n == Len(doc.units)
        IN /\ n = Cardinality(DOMAIN unit_graph)
           /\ \A p \in 1..n : UnitOf(doc.units[p]) \in DOMAIN unit_graph
           /\ \A p, q \in 1..n :
                 p < q => UnitLess(UnitOf(doc.units[p]), UnitOf(doc.units[q]))
           /\ \A p \in 1..n :
                 LET edges == unit_graph[UnitOf(doc.units[p])]
                     deps == doc.units[p].dependencies
                 IN /\ Len(deps) = Len(edges)
                    /\ \A k \in DOMAIN edges :
                          /\ deps[k].index \in 0..(n - 1)
                          /\ UnitOf(doc.units[deps[k].index + 1]) = edges[k].unit
                          /\ deps[k].extern_crate_name = edges[k].extern_crate_name
           /\ Len(doc.roots) = Len(root_units)
           /\ \A k \in DOMAIN root_units :
                 /\ doc.roots[k] \in 0..(n - 1)
                 /\ UnitOf(doc.units[doc.roots[k] + 1]) = root_units[k]

\* Three units were emitted from a map not enumerated in Unit order; the
\* root and a dependency designate the last unit.
C7_Witness ==
    /\ Len(stdout) >= 1
    /\ Len(stdout[1].units) = 3
    /\ ~iter_sorted
    /\ stdout[1].roots = <<2>>
    /\ \E p \in 1..3 : \E k \in DOMAIN stdout[1].units[p].dependencies :
          stdout[1].units[p].dependencies[k].index = 2

(***************************************************************************)
(* C8: for the same graph, roots and flags, every run emits the same       *)
(* document, whatever order the map is enumerated in.                      *)
(***************************************************************************)
C8_Deterministic ==
    \A i, j \in DOMAIN stdout : stdout[i] = stdout[j]

\* Two runs have written; the map of the second was not enumerated in Unit
\* order, and the graph has edges and roots.
C8_Witness ==
    /\ Len(stdout) = 2
    /\ ~iter_sorted
    /\ Len(stdout[2].units) >= 2
    /\ stdout[2].roots # <<>>
    /\ \E p \in DOMAIN stdout[2].units : stdout[2].units[p].dependencies # <<>>
====
